---- MODULE Spec2Model ----
(***************************************************************************)
(* Model of db/set.go: the set data type layered over a transactional      *)
(* key-value store.  The store holds one metadata value per logical key    *)
(* and one member key per (object id, member).  A Set handle caches the    *)
(* decoded metadata (id, Len, timestamps) and an exists flag.              *)
(*                                                                         *)
(* Members are the byte strings "\x01", "\x02", ... written 1, 2, ...; the *)
(* store's byte-lexicographic key order is the numeric order.  Object ids  *)
(* are fixed-length UUIDs, so no data prefix is a prefix of another.       *)
(* Object.CreatedAt and Object.Encoding are never read by set.go and are   *)
(* left out of the records.                                                *)
(***************************************************************************)
EXTENDS Integers, Sequences, FiniteSets, TLC

\* ---- bounds -------------------------------------------------------------
NumKeys == 2
NumMembers == 2
MaxList == 2
MaxCount == 2
MaxTime == 2

\* ---- program constants --------------------------------------------------
\* SetNilValue = []byte{0}: the sentinel stored under every member key.
SetNilValue == 0

Keys == 1..NumKeys
Members == 1..NumMembers
Slots == {1, 2}
\* Enough ids for UUID() never to run out: per key, one persisted or
\* orphaned and one per not-yet-persisted handle.
Ids == 1..(3 * NumKeys)
Times == 1..MaxTime

\* The value a read yields for a missing key (kv.ErrNotFound / nil slot of
\* BatchGetValues).
Nil == -1
\* A member value that is not the sentinel.
BadValue == SetNilValue + 1
Values == {Nil, SetNilValue, BadValue}

MemberLists == UNION {[1..n -> Members] : n \in 0..MaxList}
Counts == (0 - 1)..MaxCount

VARIABLES meta, data, handle, now, last

vars == <<meta, data, handle, now, last>>

\* ---- store values -------------------------------------------------------
\* meta[k] is the value stored under MetaKey(db, k):
\*   kind "none": no value;  kind "obj": header || 8 bytes;  kind "raw": a
\*   value of rawlen bytes that is not header-length + 8 long.
NoMeta == [kind |-> "none", type |-> "none", id |-> 0, len |-> 0,
           updatedAt |-> 0, expireAt |-> 0, rawlen |-> 0]

ObjMeta(type, id, len, updatedAt, expireAt) ==
    [kind |-> "obj", type |-> type, id |-> id, len |-> len,
     updatedAt |-> updatedAt, expireAt |-> expireAt, rawlen |-> 0]

RawMeta(n) == [NoMeta EXCEPT !.kind = "raw", !.rawlen = n]

\* type Set struct { meta *SetMeta; key []byte; exists bool; txn }
NoHandle == [held |-> FALSE, id |-> 0, len |-> 0, exists |-> FALSE,
             updatedAt |-> 0, expireAt |-> 0]

\* ---- external collaborators --------------------------------------------
\* Length of the encoded object header, in bytes: one position for each of
\* the header fields set.go reads (Type, ID, UpdatedAt, ExpireAt).
ObjectEncodingLength == 4

\* IsExpired(obj, now): an expiration time of 0 means none.
IsExpired(obj, t) == obj.expireAt # 0 /\ obj.expireAt <= t

\* UUID(): an id that no metadata record, handle or member key carries.
\* Ids are interchangeable, so the one made for a handle of key k is taken
\* to be the least free id congruent to k modulo NumKeys.
UsedIds(mt, dt, hd) ==
    {mt[k].id : k \in Keys} \cup
    {hd[k][i].id : k \in Keys, i \in Slots} \cup
    {p[1] : p \in {q \in DOMAIN dt : dt[q] # Nil}}

UUID(mt, dt, hd, k) ==
    LET free == {i \in Ids : i % NumKeys = k % NumKeys} \ UsedIds(mt, dt, hd)
    IN CHOOSE i \in free : \A j \in free : i <= j

\* The f-th store call of an operation fails; f = 0: none fails.
Fails(call, f) == f # 0 /\ call = f

\* ---- codecs and keys ----------------------------------------------------
\* len(b) of a stored metadata value.
ByteLen(b) == IF b.kind = "obj" THEN ObjectEncodingLength + 8 ELSE b.rawlen

\* DecodeSetMeta: b[ObjectEncodingLength:] panics when b is shorter than the
\* header; a trailing region that is not 8 bytes is ErrInvalidLength.
DecodeSetMeta(b) ==
    IF ByteLen(b) < ObjectEncodingLength THEN "panic"
    ELSE IF ByteLen(b) - ObjectEncodingLength # 8 THEN "ErrInvalidLength"
    ELSE "nil"

\* Member keys that leave the object id out: one prefix for every set.
setItemKey_Shared(id, member) == <<1, member>>

\* setItemKey(DataKey(db, id), member): the member key of member under id.
setItemKey(id, member) == <<id, member>>

\* The member keys a prefix-bounded iterator of id yields, as members.
IterMembers(dt, id) == {m \in Members : dt[setItemKey(id, m)] # Nil}

\* An iterator that yields the greatest key first.
RECURSIVE SortedSeq_Descending(_)
SortedSeq_Descending(S) ==
    IF S = {} THEN <<>>
    ELSE LET hi == CHOOSE x \in S : \A y \in S : x >= y
         IN <<hi>> \o SortedSeq_Descending(S \ {hi})

\* The order in which the store's iterator yields keys: ascending.
RECURSIVE SortedSeq(_)
SortedSeq(S) ==
    IF S = {} THEN <<>>
    ELSE LET lo == CHOOSE x \in S : \A y \in S : x <= y
         IN <<lo>> \o SortedSeq(S \ {lo})

Range(s) == {s[i] : i \in DOMAIN s}

\* The distinct members in the order of the store's keys.
RemoveRepByMap_Sorted(members) == SortedSeq(Range(members))

\* RemoveRepByMap: keep the first occurrence of every member.
RECURSIVE RemoveRepByMap(_)
RemoveRepByMap(members) ==
    IF members = <<>> THEN <<>>
    ELSE LET front == RemoveRepByMap(SubSeq(members, 1, Len(members) - 1))
             m == members[Len(members)]
         IN IF m \in Range(front) THEN front ELSE Append(front, m)

\* ---- GetSet -------------------------------------------------------------
\* A fresh handle that claims its set is stored already.
newSet_Exists(mt, dt, hd, k, t) ==
    [held |-> TRUE, id |-> UUID(mt, dt, hd, k), len |-> 0, exists |-> TRUE,
     updatedAt |-> t, expireAt |-> 0]

\* newSet: a new identity, Len 0, exists false, nothing written.
newSet(mt, dt, hd, k, t) ==
    [held |-> TRUE, id |-> UUID(mt, dt, hd, k), len |-> 0, exists |-> FALSE,
     updatedAt |-> t, expireAt |-> 0]

\* Result: the handle (NoHandle when nil is returned), the error and the
\* number of store calls made.
GetSet(mt, dt, hd, k, t, f) ==
    LET set == newSet(mt, dt, hd, k, t)
        b == mt[k]
    IN IF Fails(1, f) THEN [h |-> NoHandle, err |-> "ErrStore", calls |-> 1]
       ELSE IF b.kind = "none" THEN [h |-> set, err |-> "nil", calls |-> 1]
       ELSE IF DecodeSetMeta(b) # "nil"
            THEN [h |-> NoHandle, err |-> DecodeSetMeta(b), calls |-> 1]
       ELSE IF b.type # "set"
            THEN [h |-> NoHandle, err |-> "ErrTypeMismatch", calls |-> 1]
       ELSE IF IsExpired(set, t) THEN [h |-> set, err |-> "nil", calls |-> 1]
       ELSE [h |-> [held |-> TRUE, id |-> b.id, len |-> b.len,
                    exists |-> TRUE, updatedAt |-> b.updatedAt,
                    expireAt |-> b.expireAt],
             err |-> "nil", calls |-> 1]

\* ---- updateMeta ---------------------------------------------------------
encodeSetMeta(h) == ObjMeta("set", h.id, h.len, h.updatedAt, h.expireAt)

\* The record is encoded before UpdatedAt is refreshed.
updateMeta(mt, h, k, t, fail) ==
    IF fail THEN [meta |-> mt, h |-> h, err |-> "ErrStore"]
    ELSE [meta |-> [mt EXCEPT ![k] = encodeSetMeta(h)],
          h |-> [h EXCEPT !.updatedAt = t, !.exists = TRUE],
          err |-> "nil"]

\* ---- SAdd ---------------------------------------------------------------
\* A batch fetch that finds nothing.
BatchGetValues_AllMissing(dt, ikeys) == [i \in DOMAIN ikeys |-> Nil]

BatchGetValues(dt, ikeys) == [i \in DOMAIN ikeys |-> dt[ikeys[i]]]

\* The loop over ikeys from index i; store call 1 was the batch fetch, so
\* the Set of ikeys[i] is call 1 + i.
RECURSIVE SAddLoop(_, _, _, _, _, _)
SAddLoop(dt, ikeys, values, i, added, f) ==
    IF i > Len(ikeys) THEN [data |-> dt, added |-> added, err |-> "nil"]
    ELSE LET a == IF values[i] = Nil THEN added + 1 ELSE added
         IN IF Fails(1 + i, f)
            THEN [data |-> dt, added |-> a, err |-> "ErrStore"]
            ELSE SAddLoop([dt EXCEPT ![ikeys[i]] = SetNilValue],
                          ikeys, values, i + 1, a, f)

SAdd(mt, dt, h, k, members, t, f) ==
    LET ms == RemoveRepByMap(members)
        ikeys == [i \in DOMAIN ms |-> setItemKey(h.id, ms[i])]
        values == BatchGetValues(dt, ikeys)
        loop == SAddLoop(dt, ikeys, values, 1, 0, f)
        h1 == [h EXCEPT !.len = h.len + loop.added]
        um == updateMeta(mt, h1, k, t, Fails(Len(ms) + 2, f))
    IN IF Fails(1, f)
       THEN [meta |-> mt, data |-> dt, h |-> h, ret |-> 0, err |-> "nil",
             calls |-> 1]
       ELSE IF loop.err # "nil"
       THEN [meta |-> mt, data |-> loop.data, h |-> h, ret |-> 0,
             err |-> loop.err, calls |-> f]
       ELSE IF um.err # "nil"
       THEN [meta |-> mt, data |-> loop.data, h |-> h1, ret |-> 0,
             err |-> um.err, calls |-> Len(ms) + 2]
       ELSE [meta |-> um.meta, data |-> loop.data, h |-> um.h,
             ret |-> loop.added, err |-> "nil", calls |-> Len(ms) + 2]

\* ---- SIsmember, SCard, SMembers ----------------------------------------
SIsmember(dt, h, member, f) ==
    LET value == dt[setItemKey(h.id, member)]
    IN IF ~h.exists THEN [ret |-> 0, err |-> "nil", calls |-> 0]
       ELSE IF Fails(1, f) THEN [ret |-> 0, err |-> "ErrStore", calls |-> 1]
       ELSE IF value = Nil THEN [ret |-> 0, err |-> "nil", calls |-> 1]
       ELSE IF value # SetNilValue
            THEN [ret |-> 0, err |-> "ErrSetNilValue", calls |-> 1]
       ELSE [ret |-> 1, err |-> "nil", calls |-> 1]

SCard(h) == IF ~h.exists THEN 0 ELSE h.len

\* Number of iterations of a loop guarded by "valid && count != 0" over
\* avail keys: a negative count never reaches 0.
LoopCount(count, avail) ==
    IF count < 0 \/ count > avail THEN avail ELSE count

\* make([][]byte, 0, count) panics for a negative count.  Store call 1
\* opens the iterator, call 1 + j is the j-th iter.Next().
SMembers(dt, h, f) ==
    LET all == SortedSeq(IterMembers(dt, h.id))
        n == LoopCount(h.len, Len(all))
    IN IF ~h.exists THEN [out |-> <<>>, err |-> "nil", calls |-> 0]
       ELSE IF h.len < 0 THEN [out |-> <<>>, err |-> "panic", calls |-> 0]
       ELSE IF f # 0 /\ f <= n + 1
            THEN [out |-> <<>>, err |-> "ErrStore", calls |-> f]
       ELSE [out |-> SubSeq(all, 1, n), err |-> "nil", calls |-> n + 1]

\* ---- SPop ---------------------------------------------------------------
\* Iteration j over the keys the iterator yields: Delete is store call 2j,
\* iter.Next() is store call 2j + 1.
\* A pop that leaves the member key in place.
PopKey_Skip(dt, id, member) == dt

\* txn.t.Delete(iter.Key()) of the member the iterator is at.
PopKey(dt, id, member) == [dt EXCEPT ![setItemKey(id, member)] = Nil]

RECURSIVE SPopLoop(_, _, _, _, _, _, _)
SPopLoop(dt, id, all, j, count, members, f) ==
    IF j > Len(all) \/ count = 0
    THEN [data |-> dt, members |-> members, err |-> "nil", calls |-> 2 * j - 1]
    ELSE IF Fails(2 * j, f)
    THEN [data |-> dt, members |-> Append(members, all[j]),
          err |-> "ErrStore", calls |-> 2 * j]
    ELSE IF Fails(2 * j + 1, f)
    THEN [data |-> PopKey(dt, id, all[j]),
          members |-> Append(members, all[j]),
          err |-> "ErrStore", calls |-> 2 * j + 1]
    ELSE SPopLoop(PopKey(dt, id, all[j]), id, all,
                  j + 1, count - 1, Append(members, all[j]), f)

SPop(mt, dt, h, k, count, t, f) ==
    LET all == SortedSeq(IterMembers(dt, h.id))
        loop == SPopLoop(dt, h.id, all, 1, count, <<>>, f)
        h1 == [h EXCEPT !.len = h.len - Len(loop.members)]
        um == updateMeta(mt, h1, k, t, Fails(loop.calls + 1, f))
    IN IF ~h.exists \/ h.len = 0
       THEN [meta |-> mt, data |-> dt, h |-> h, out |-> <<>>,
             err |-> "nil", calls |-> 0]
       ELSE IF Fails(1, f)
       THEN [meta |-> mt, data |-> dt, h |-> h, out |-> <<>>,
             err |-> "ErrStore", calls |-> 1]
       ELSE IF loop.err # "nil"
       THEN [meta |-> mt, data |-> loop.data, h |-> h, out |-> <<>>,
             err |-> loop.err, calls |-> loop.calls]
       ELSE IF um.err # "nil"
       THEN [meta |-> mt, data |-> loop.data, h |-> h1, out |-> <<>>,
             err |-> um.err, calls |-> loop.calls + 1]
       ELSE [meta |-> um.meta, data |-> loop.data, h |-> um.h,
             out |-> loop.members, err |-> "nil", calls |-> loop.calls + 1]

\* ---- SRem ---------------------------------------------------------------
\* The loop over ms from index i; c store calls were made before it.  A
\* present value that is not the sentinel is neither deleted nor reported.
\* num++ moved out of the sentinel test: every listed member is counted.
Counted_Always(num, value) == num + 1

\* num after a listed member whose key reads value: only a key that held
\* the sentinel (and was deleted) is counted.
Counted(num, value) == IF value = SetNilValue THEN num + 1 ELSE num

RECURSIVE SRemLoop(_, _, _, _, _, _, _)
SRemLoop(dt, id, ms, i, num, c, f) ==
    IF i > Len(ms) THEN [data |-> dt, num |-> num, err |-> "nil", calls |-> c]
    ELSE LET ikey == setItemKey(id, ms[i])
             value == dt[ikey]
         IN IF Fails(c + 1, f)
            THEN [data |-> dt, num |-> num, err |-> "ErrStore",
                  calls |-> c + 1]
            ELSE IF value = Nil
            THEN SRemLoop(dt, id, ms, i + 1, Counted(num, value), c + 1, f)
            ELSE IF value = SetNilValue
            THEN IF Fails(c + 2, f)
                 THEN [data |-> dt, num |-> num, err |-> "ErrStore",
                       calls |-> c + 2]
                 ELSE SRemLoop([dt EXCEPT ![ikey] = Nil], id, ms, i + 1,
                               Counted(num, value), c + 2, f)
            ELSE SRemLoop(dt, id, ms, i + 1, Counted(num, value), c + 1, f)

SRem(mt, dt, h, k, members, t, f) ==
    LET ms == RemoveRepByMap(members)
        loop == SRemLoop(dt, h.id, ms, 1, 0, 0, f)
        h1 == [h EXCEPT !.len = h.len - loop.num]
        um == updateMeta(mt, h1, k, t, Fails(loop.calls + 1, f))
    IN IF ~h.exists
       THEN [meta |-> mt, data |-> dt, h |-> h, ret |-> 0, err |-> "nil",
             calls |-> 0]
       ELSE IF loop.err # "nil"
       THEN [meta |-> mt, data |-> loop.data, h |-> h, ret |-> 0,
             err |-> loop.err, calls |-> loop.calls]
       ELSE IF um.err # "nil"
       THEN [meta |-> mt, data |-> loop.data, h |-> h1, ret |-> 0,
             err |-> um.err, calls |-> loop.calls + 1]
       ELSE [meta |-> um.meta, data |-> loop.data, h |-> um.h,
             ret |-> loop.num, err |-> "nil", calls |-> loop.calls + 1]

\* ---- SMove --------------------------------------------------------------
\* The fault index as seen by a nested call made after `used` store calls.
Rel(f, used) == IF f > used THEN f - used ELSE 0

\* hd: all handles alive (for UUID); h: the source handle, of key k.
SMove(mt, dt, hd, h, k, destination, member, t, f) ==
    LET res1 == SIsmember(dt, h, member, f)
        gs == GetSet(mt, dt, hd, destination, t, Rel(f, res1.calls))
        destset == gs.h
        c2 == res1.calls + gs.calls
        res2 == SIsmember(dt, destset, member, Rel(f, c2))
        c3 == c2 + res2.calls
        add == IF res2.ret = 0
               THEN SAdd(mt, dt, destset, destination, <<member>>, t,
                         Rel(f, c3))
               ELSE [meta |-> mt, data |-> dt, h |-> destset, ret |-> 0,
                     err |-> "nil", calls |-> 0]
        c4 == c3 + add.calls
        ikey == setItemKey(h.id, member)
        dt5 == [add.data EXCEPT ![ikey] = Nil]
        h5 == [h EXCEPT !.len = h.len - 1]
        um == updateMeta(add.meta, h5, k, t, Fails(c4 + 2, f))
        unchanged == [meta |-> mt, data |-> dt, h |-> h]
    IN IF ~h.exists
       THEN unchanged @@ [ret |-> 0, err |-> "nil", calls |-> 0]
       ELSE IF res1.err # "nil"
       THEN unchanged @@ [ret |-> 0, err |-> res1.err, calls |-> 1]
       ELSE IF res1.ret = 0
       THEN unchanged @@ [ret |-> 0, err |-> "nil", calls |-> 1]
       ELSE IF gs.err = "panic"
       THEN unchanged @@ [ret |-> 0, err |-> "panic", calls |-> c2]
       ELSE IF gs.err # "nil"
       THEN unchanged @@ [ret |-> 0, err |-> "nil", calls |-> c2]
       ELSE IF res2.err # "nil"
       THEN unchanged @@ [ret |-> 0, err |-> res2.err, calls |-> c3]
       ELSE IF add.err # "nil"
       THEN [meta |-> add.meta, data |-> add.data, h |-> h, ret |-> 0,
             err |-> add.err, calls |-> c4]
       ELSE IF Fails(c4 + 1, f)
       THEN [meta |-> add.meta, data |-> add.data, h |-> h, ret |-> 0,
             err |-> "ErrStore", calls |-> c4 + 1]
       ELSE IF um.err # "nil"
       THEN [meta |-> add.meta, data |-> dt5, h |-> h5, ret |-> 0,
             err |-> um.err, calls |-> c4 + 2]
       ELSE [meta |-> um.meta, data |-> dt5, h |-> um.h, ret |-> 1,
             err |-> "nil", calls |-> c4 + 2]

\* ---- the system ---------------------------------------------------------
\* Lengths of stored metadata values that DecodeSetMeta rejects.
BadLengths == {ObjectEncodingLength - 1, ObjectEncodingLength + 9}

\* A key starts without a value, or holding an object of another type, or
\* a value of the wrong length.
InitMetas ==
    {NoMeta, ObjMeta("other", 0, 0, 0, 0)} \cup {RawMeta(n) : n \in BadLengths}

\* last records the final call of a run: the operation, its receiver's key
\* and arguments, the store fault injected, what it returned and the state
\* it was made in.  op "none": no call is recorded yet.
NoPre == [meta |-> <<>>, data |-> <<>>, handle |-> <<>>, now |-> 0]

\* arg and val: the argument and the value of a recorded pure function.
NoLast == [op |-> "none", k |-> 0, ms |-> <<>>, n |-> 0, dst |-> 0, m |-> 0,
           f |-> 0, ret |-> 0, out |-> <<>>, err |-> "nil", pre |-> NoPre,
           arg |-> <<>>, val |-> <<>>]

\* Keys are interchangeable: key 1 is the one that may start with a value
\* GetSet rejects.
Init ==
    /\ meta \in {mt \in [Keys -> InitMetas] :
                    \A k \in Keys \ {1} : mt[k] = NoMeta}
    /\ data = [p \in Ids \X Members |-> Nil]
    /\ handle = [k \in Keys |-> [i \in Slots |-> NoHandle]]
    /\ now = 1
    /\ last = NoLast

Called(op, k, args, res) ==
    [f \in DOMAIN NoLast |->
        IF f = "op" THEN op
        ELSE IF f = "k" THEN k
        ELSE IF f = "pre"
             THEN [meta |-> meta, data |-> data, handle |-> handle,
                   now |-> now]
        ELSE IF f \in DOMAIN res THEN res[f]
        ELSE IF f \in DOMAIN args THEN args[f]
        ELSE NoLast[f]]

\* The value stored for key k is a set's metadata record.
IsStoredSet(mt, k) == mt[k].kind = "obj" /\ mt[k].type = "set"

\* The handle h of key k holds what the store mt holds for k.
Synced(mt, h, k) ==
    IF h.exists
    THEN mt[k].kind = "obj" /\ mt[k].type = "set"
         /\ mt[k].id = h.id /\ mt[k].len = h.len
    ELSE mt[k].kind = "none"

\* A run is followed up to and including its first call that is recorded in
\* last.  A call that returns an error (the caller abandons the transaction)
\* or is made through a handle out of step with the store (from then on Len
\* drifts without bound) is always recorded; so is a call that only reads.
Live == last.op = "none"

MayGoOn(k, i, err) == err = "nil" /\ Synced(meta, handle[k][i], k)

\* What a mutating call on handle slot i of key k leaves behind.
Mutated(k, i, res) ==
    /\ meta' = res.meta
    /\ data' = res.data
    /\ handle' = [handle EXCEPT ![k][i] = res.h]
    /\ now' = now

MaxFault == 2

Faults == 0..MaxFault

\* The handles the caller still holds when it asks for a new one into slot
\* i of key k: all the others (keep), or none.
Kept(k, i, keep) ==
    IF keep THEN [handle EXCEPT ![k][i] = NoHandle]
    ELSE [j \in Keys |-> [n \in Slots |-> NoHandle]]

DoGetSet(k, i, f, rec, keep) ==
    /\ Live
    /\ LET res == GetSet(meta, data, Kept(k, i, keep), k, now, f)
       IN /\ rec \/ res.err = "nil"
          /\ f <= res.calls
          /\ handle' = [Kept(k, i, keep) EXCEPT ![k][i] = res.h]
          /\ last' = IF rec
                     THEN Called("GetSet", k, [f |-> f], [err |-> res.err])
                     ELSE last
    /\ UNCHANGED <<meta, data, now>>

DoSAdd(k, i, ms, f, rec) ==
    /\ Live /\ handle[k][i].held
    /\ LET res == SAdd(meta, data, handle[k][i], k, ms, now, f)
       IN /\ rec \/ MayGoOn(k, i, res.err)
          /\ f <= res.calls
          /\ Mutated(k, i, res)
          /\ last' = IF rec
                     THEN Called("SAdd", k, [ms |-> ms, f |-> f],
                                 [ret |-> res.ret, err |-> res.err])
                     ELSE last

DoSRem(k, i, ms, f, rec) ==
    /\ Live /\ handle[k][i].held
    /\ LET res == SRem(meta, data, handle[k][i], k, ms, now, f)
       IN /\ rec \/ MayGoOn(k, i, res.err)
          /\ f <= res.calls
          /\ Mutated(k, i, res)
          /\ last' = IF rec
                     THEN Called("SRem", k, [ms |-> ms, f |-> f],
                                 [ret |-> res.ret, err |-> res.err])
                     ELSE last

DoSPop(k, i, n, f, rec) ==
    /\ Live /\ handle[k][i].held
    /\ LET res == SPop(meta, data, handle[k][i], k, n, now, f)
       IN /\ rec \/ MayGoOn(k, i, res.err)
          /\ f <= res.calls
          /\ Mutated(k, i, res)
          /\ last' = IF rec
                     THEN Called("SPop", k, [n |-> n, f |-> f],
                                 [out |-> res.out, err |-> res.err])
                     ELSE last

DoSMove(k, i, dst, m, f, rec) ==
    /\ Live /\ handle[k][i].held
    /\ LET res == SMove(meta, data, handle, handle[k][i], k, dst, m, now, f)
       IN /\ rec \/ MayGoOn(k, i, res.err)
          /\ f <= res.calls
          /\ Mutated(k, i, res)
          /\ last' = IF rec
                     THEN Called("SMove", k,
                                 [dst |-> dst, m |-> m, f |-> f],
                                 [ret |-> res.ret, err |-> res.err])
                     ELSE last

DoSIsmember(k, i, m, f) ==
    /\ Live /\ handle[k][i].held
    /\ LET res == SIsmember(data, handle[k][i], m, f)
       IN /\ f <= res.calls
          /\ last' = Called("SIsmember", k, [m |-> m, f |-> f],
                            [ret |-> res.ret, err |-> res.err])
    /\ UNCHANGED <<meta, data, handle, now>>

DoSCard(k, i) ==
    /\ Live /\ handle[k][i].held
    /\ last' = Called("SCard", k, <<>>, [ret |-> SCard(handle[k][i])])
    /\ UNCHANGED <<meta, data, handle, now>>

DoSMembers(k, i, f) ==
    /\ Live /\ handle[k][i].held
    /\ LET res == SMembers(data, handle[k][i], f)
       IN /\ f <= res.calls
          /\ last' = Called("SMembers", k, [f |-> f],
                            [out |-> res.out, err |-> res.err])
    /\ UNCHANGED <<meta, data, handle, now>>

\* How far the stored Len of a set may fall behind its number of member
\* keys before a run is no longer followed.
MaxDrift == 1

\* An SAdd through a handle that still names the stored set but caches an
\* older Len than the store holds; the call succeeds and the run goes on.
DoSAddStale(k, i, ms) ==
    /\ Live /\ handle[k][i].held /\ handle[k][i].exists
    /\ IsStoredSet(meta, k) /\ meta[k].id = handle[k][i].id
    /\ meta[k].len # handle[k][i].len
    /\ Cardinality(IterMembers(data, meta[k].id)) - meta[k].len < MaxDrift
    /\ LET res == SAdd(meta, data, handle[k][i], k, ms, now, 0)
       IN /\ res.err = "nil"
          /\ Mutated(k, i, res)
    /\ UNCHANGED last

\* The clock read by Now() advances.
Tick ==
    /\ Live
    /\ now < MaxTime
    /\ now' = now + 1
    /\ UNCHANGED <<meta, data, handle, last>>

\* An expiration time is put on the stored object of key k.
Expire(k, at) ==
    /\ Live
    /\ meta[k].kind = "obj" /\ meta[k].type = "set"
    /\ meta[k].expireAt # at
    /\ meta' = [meta EXCEPT ![k].expireAt = at]
    /\ UNCHANGED <<data, handle, now, last>>

\* The value under a member key of the set of key k is damaged.
Corrupt(k, m) ==
    /\ Live
    /\ meta[k].kind = "obj" /\ meta[k].type = "set"
    /\ data[setItemKey(meta[k].id, m)] = SetNilValue
    /\ data' = [data EXCEPT ![setItemKey(meta[k].id, m)] = BadValue]
    /\ UNCHANGED <<meta, handle, now, last>>

\* The calls of a caller, with store fault f, on handles held in slot 1.
\* keep: the caller holds a handle per logical key; otherwise it holds one
\* handle at a time and lets go of it when it asks for another.
Call(f, keep) ==
    \/ \E k \in Keys, rec \in BOOLEAN : DoGetSet(k, 1, f, rec, keep)
    \/ \E k \in Keys, ms \in MemberLists, rec \in BOOLEAN :
          DoSAdd(k, 1, ms, f, rec)
    \/ \E k \in Keys, ms \in MemberLists, rec \in BOOLEAN :
          DoSRem(k, 1, ms, f, rec)
    \/ \E k \in Keys, n \in Counts, rec \in BOOLEAN : DoSPop(k, 1, n, f, rec)
    \/ \E k \in Keys, dst \in Keys, m \in Members, rec \in BOOLEAN :
          DoSMove(k, 1, dst, m, f, rec)
    \/ \E k \in Keys, m \in Members : DoSIsmember(k, 1, m, f)
    \/ \E k \in Keys : f = 0 /\ DoSCard(k, 1)
    \/ \E k \in Keys : DoSMembers(k, 1, f)

\* The store works; the caller holds one handle at a time.
Next == Call(0, FALSE)

Spec == Init /\ [][Next]_vars

\* The store works; the caller holds a handle per logical key.
NextHandles == Call(0, TRUE)

SpecHandles == Init /\ [][NextHandles]_vars

\* One call of the store may fail, and a member value may be damaged.
NextFault ==
    \/ \E f \in Faults : Call(f, FALSE)
    \/ \E k \in Keys, m \in Members : Corrupt(k, m)

SpecFault == Init /\ [][NextFault]_vars

\* The store works, the caller holds a handle per logical key and goes on
\* after an SAdd through a handle with an outdated Len.
NextDrift ==
    \/ Call(0, TRUE)
    \/ \E k \in Keys, ms \in MemberLists : DoSAddStale(k, 1, ms)

SpecDrift == Init /\ [][NextDrift]_vars

\* The store works and the caller holds up to two handles per logical key,
\* through which it adds, removes and pops members.
NextTwo ==
    \E i \in Slots :
        \/ \E k \in Keys, rec \in BOOLEAN : DoGetSet(k, i, 0, rec, TRUE)
        \/ \E k \in Keys, ms \in MemberLists, rec \in BOOLEAN :
              DoSAdd(k, i, ms, 0, rec)
        \/ \E k \in Keys, ms \in MemberLists, rec \in BOOLEAN :
              DoSRem(k, i, ms, 0, rec)
        \/ \E k \in Keys, n \in Counts, rec \in BOOLEAN :
              DoSPop(k, i, n, 0, rec)

SpecTwo == Init /\ [][NextTwo]_vars

\* Sets are made and read with a store that works, while time passes and
\* expiration times are put on them.
NextExpire ==
    \/ \E k \in Keys, rec \in BOOLEAN : DoGetSet(k, 1, 0, rec, FALSE)
    \/ \E k \in Keys, ms \in MemberLists, rec \in BOOLEAN :
          DoSAdd(k, 1, ms, 0, rec)
    \/ \E k \in Keys, m \in Members : DoSIsmember(k, 1, m, 0)
    \/ \E k \in Keys : DoSCard(k, 1)
    \/ \E k \in Keys : DoSMembers(k, 1, 0)
    \/ Tick
    \/ \E k \in Keys, at \in Times : Expire(k, at)

SpecExpire == Init /\ [][NextExpire]_vars

\* ---- the metadata codec, byte by byte -----------------------------------
\* A byte has ByteBase values (256 in the program); a 64-bit word is the 8
\* bytes of lines 119 and 126.
ByteBase == 2

Word == ByteBase ^ 8

\* uint64(x) of an int64 and int64(u) of a uint64: two's complement.
ToUint64(x) == x % Word

ToInt64(u) == IF u >= Word \div 2 THEN u - Word ELSE u

\* The int64 values.
Int64s == (0 - (Word \div 2))..((Word \div 2) - 1)

\* The 8 bytes of u with the least significant byte first.
PutUint64_LittleEndian(u) ==
    [i \in 1..8 |-> (u \div (ByteBase ^ (i - 1))) % ByteBase]

\* binary.BigEndian.PutUint64: the most significant byte first.
PutUint64(u) == [i \in 1..8 |-> (u \div (ByteBase ^ (8 - i))) % ByteBase]

\* binary.BigEndian.Uint64 of the first n bytes of m.
RECURSIVE Uint64(_, _)
Uint64(m, n) == IF n = 0 THEN 0 ELSE Uint64(m, n - 1) * ByteBase + m[n]

\* EncodeObject / DecodeObject: the header, one position per field.
EncodeObject(obj) == <<obj.type, obj.id, obj.updatedAt, obj.expireAt>>

DecodeObject(b) ==
    [type |-> b[1], id |-> b[2], updatedAt |-> b[3], expireAt |-> b[4]]

\* encodeSetMeta as bytes: append(EncodeObject(&meta.Object), m...).
encodeSetMetaBytes(m) == EncodeObject(m) \o PutUint64(ToUint64(m.len))

\* DecodeSetMeta on bytes: the record it returns, or the error.
DecodeSetMetaBytes(b) ==
    IF Len(b) < ObjectEncodingLength THEN [err |-> "panic"]
    ELSE IF Len(b) - ObjectEncodingLength # 8
    THEN [err |-> "ErrInvalidLength"]
    ELSE LET obj == DecodeObject(b)
             m == SubSeq(b, ObjectEncodingLength + 1, Len(b))
         IN [err |-> "nil", type |-> obj.type, id |-> obj.id,
             updatedAt |-> obj.updatedAt, expireAt |-> obj.expireAt,
             len |-> ToInt64(Uint64(m, 8))]

\* The metadata records: every header over the model's ids and times, and
\* every int64 Len.
SetMetas ==
    [type : {"set", "other"}, id : Ids, updatedAt : 0..MaxTime,
     expireAt : 0..MaxTime, len : Int64s]

\* The lists RemoveRepByMap is given: long enough to repeat a member more
\* than once.
DupLists == UNION {[1..n -> Members] : n \in 0..(MaxList + 2)}

\* The input of a pure function of set.go is chosen: a metadata record for
\* the codec, a list of members for RemoveRepByMap.  The store is empty
\* and no handle is held.
Chosen(of, x) == [NoLast EXCEPT !.arg = [of |-> of, x |-> x]]

InitPure ==
    /\ meta = [k \in Keys |-> NoMeta]
    /\ data = [p \in Ids \X Members |-> Nil]
    /\ handle = [k \in Keys |-> [i \in Slots |-> NoHandle]]
    /\ now = 1
    /\ \/ \E m \in SetMetas : last = Chosen("encodeSetMeta", m)
       \/ \E ms \in DupLists : last = Chosen("RemoveRepByMap", ms)

\* The chosen metadata record is encoded and the bytes are decoded.
DoEncodeDecode ==
    /\ Live /\ last.arg.of = "encodeSetMeta"
    /\ LET m == last.arg.x
       IN last' = [NoLast EXCEPT
                      !.op = "encodeSetMeta", !.arg = m,
                      !.out = encodeSetMetaBytes(m),
                      !.val = DecodeSetMetaBytes(encodeSetMetaBytes(m))]
    /\ UNCHANGED <<meta, data, handle, now>>

\* RemoveRepByMap is applied to the chosen list of members.
DoRemoveRepByMap ==
    /\ Live /\ last.arg.of = "RemoveRepByMap"
    /\ LET ms == last.arg.x
       IN last' = [NoLast EXCEPT !.op = "RemoveRepByMap", !.arg = ms,
                                 !.out = RemoveRepByMap(ms)]
    /\ UNCHANGED <<meta, data, handle, now>>

\* The pure functions of set.go, each applied once to one input.
NextPure == DoEncodeDecode \/ DoRemoveRepByMap

SpecPure == InitPure /\ [][NextPure]_vars

\* ---- properties ---------------------------------------------------------
TypeOK ==
    /\ now \in Times
    /\ \A k \in Keys : meta[k].kind \in {"none", "obj", "raw"}
    /\ \A p \in DOMAIN data : data[p] \in Values

IsSet(mt, k) == mt[k].kind = "obj" /\ mt[k].type = "set"

\* The member keys under the data prefix of the set stored at key k.
StoredMembers(mt, dt, k) == IterMembers(dt, mt[k].id)

\* Len of every stored set is the number of its member keys.
LenInv(mt, dt) ==
    \A k \in Keys :
        IsSet(mt, k) => mt[k].len = Cardinality(StoredMembers(mt, dt, k))

Mutators == {"SAdd", "SRem", "SPop", "SMove"}

\* The handle the recorded call was made on, and whether it was in step
\* with the store when the call was made.
PreHandle == last.pre.handle[last.k][1]

PreSynced == Synced(last.pre.meta, PreHandle, last.k)

\* The member keys under the receiver's data prefix before the call.
PreMembers == IterMembers(last.pre.data, PreHandle.id)

\* The recorded call is op, made with a working store on a handle in step
\* with the store.
Did(op) == last.op = op /\ last.f = 0 /\ PreSynced

C2_SAddCountsNewMembers ==
    Did("SAdd") =>
        LET h == handle[last.k][1]
            again == SAdd(meta, data, h, last.k, last.ms, now, 0)
        IN /\ last.err = "nil"
           /\ last.ret = Cardinality(Range(last.ms) \ PreMembers)
           /\ SCard(h) = Cardinality(PreMembers \cup Range(last.ms))
           /\ again.err = "nil" /\ again.ret = 0
           /\ SCard(again.h) = SCard(h)

\* An SAdd, to a set that has a member, of a list that names one absent
\* member twice.
C2_Witness ==
    /\ Did("SAdd")
    /\ Cardinality(Range(last.ms)) < Len(last.ms)
    /\ PreMembers # {}
    /\ last.ret = 1 /\ SCard(handle[last.k][1]) = 2

\* What SIsmember reports for each member on a handle loaded by GetSet in
\* store state (mt, dt); keys GetSet cannot load have none.
Loaded(mt, dt, hd, k, t) == GetSet(mt, dt, hd, k, t, 0)

FreshMembers(mt, dt, hd, k, t) ==
    {m \in Members : SIsmember(dt, Loaded(mt, dt, hd, k, t).h, m, 0).ret = 1}

MembersBefore(k) ==
    FreshMembers(last.pre.meta, last.pre.data, last.pre.handle, k,
                 last.pre.now)

MembersNow(k) == FreshMembers(meta, data, handle, k, now)

\* The members of key k after the recorded call, going by what the call
\* returned: SAdd puts its members in, SRem takes its members out, SPop
\* takes out what it returned, SMove that returned 1 takes its member out of
\* the source and puts it into the destination.
MembersDue(k) ==
    LET before == MembersBefore(k)
        here == k = last.k
    IN IF last.op = "SAdd" /\ here THEN before \cup Range(last.ms)
       ELSE IF last.op = "SRem" /\ here THEN before \ Range(last.ms)
       ELSE IF last.op = "SPop" /\ here THEN before \ Range(last.out)
       ELSE IF last.op = "SMove" /\ last.ret = 1
       THEN LET left == IF here THEN before \ {last.m} ELSE before
            IN IF k = last.dst THEN left \cup {last.m} ELSE left
       ELSE before

\* C3: after every successful SAdd, SRem, SPop or SMove, SIsmember(m) on a
\* freshly loaded handle returns 1, without error, exactly for the members
\* that were added (by SAdd or as the destination of SMove) and not since
\* removed, popped or moved out; else 0.  Stated step by step: the members
\* a fresh handle reports after the call are those it reported before,
\* changed by what the call returned.
C3_IsmemberIffAdded ==
    (last.op \in Mutators /\ last.f = 0 /\ last.err = "nil" /\ PreSynced) =>
        \A k \in Keys :
            Loaded(meta, data, handle, k, now).err = "nil" =>
                \A m \in Members :
                    LET r == SIsmember(data, Loaded(meta, data, handle, k,
                                                    now).h, m, 0)
                    IN r.err = "nil" /\ (r.ret = 1 <=> m \in MembersDue(k))

\* C4: when SMove returns 1 the member is absent from the source and
\* present in the destination, whatever the destination (new, already
\* holding the member, or the source itself); when the member is not in the
\* source SMove returns 0 and neither member keys nor metadata change.
C4_SMoveAtomic ==
    Did("SMove") =>
        /\ last.ret = 1 =>
              /\ last.m \notin MembersNow(last.k)
              /\ last.m \in MembersNow(last.dst)
        /\ last.m \notin PreMembers =>
              /\ last.ret = 0 /\ last.err = "nil"
              /\ meta = last.pre.meta /\ data = last.pre.data

Min(a, b) == IF a < b THEN a ELSE b

\* C5: SPop(n), n >= 0, on an existing set of size k returns exactly
\* min(n, k) distinct members; none of them is in SMembers or tests
\* positive in SIsmember afterwards; SCard drops by exactly min(n, k).  On
\* a set that does not exist or is empty the result is empty, with no error.
C5_SPopMinCount ==
    (Did("SPop") /\ last.n >= 0) =>
        LET h == handle[last.k][1]
            size == Cardinality(PreMembers)
            want == Min(last.n, size)
        IN /\ last.err = "nil"
           /\ Len(last.out) = want
           /\ Cardinality(Range(last.out)) = want
           /\ Range(last.out) \subseteq PreMembers
           /\ \A m \in Range(last.out) :
                 /\ SIsmember(data, h, m, 0).ret = 0
                 /\ m \notin Range(SMembers(data, h, 0).out)
                 /\ m \notin MembersNow(last.k)
           /\ SCard(h) = SCard(PreHandle) - want
           /\ (~PreHandle.exists \/ size = 0) => last.out = <<>>

\* An SPop(1) on a set of two members.
C5_Witness ==
    /\ Did("SPop") /\ last.n = 1 /\ PreHandle.exists
    /\ Cardinality(PreMembers) = 2
    /\ Len(last.out) = 1 /\ SCard(handle[last.k][1]) = 1

\* An expiration time that is set and in the past.
Expired(b, t) == b.expireAt # 0 /\ b.expireAt < t

\* C6: GetSet on a key whose stored record has an expiration time that is
\* set and in the past returns a handle with exists = false, Len 0 and an
\* identity other than the stale one; SCard is 0, SMembers is empty and
\* SIsmember is 0 for every member.
C6_ExpiredIsNotFound ==
    (/\ last.op = "GetSet" /\ last.f = 0
     /\ IsSet(last.pre.meta, last.k)
     /\ Expired(last.pre.meta[last.k], last.pre.now)) =>
        LET h == handle[last.k][1]
        IN /\ last.err = "nil"
           /\ ~h.exists /\ h.len = 0 /\ h.id # last.pre.meta[last.k].id
           /\ SCard(h) = 0
           /\ SMembers(data, h, 0).out = <<>>
           /\ \A m \in Members : SIsmember(data, h, m, 0).ret = 0

\* C7: when the batch fetch of SAdd (its first store call) fails, SAdd
\* returns an error and writes neither a member key nor metadata.
C7_BatchFetchErrorSurfaces ==
    (last.op = "SAdd" /\ last.ms # <<>> /\ last.f = 1) =>
        /\ last.err # "nil"
        /\ meta = last.pre.meta /\ data = last.pre.data

\* The listed members, without repetitions, and the first of them whose key
\* holds a value other than the sentinel.
PreList == RemoveRepByMap(last.ms)

CorruptAt ==
    {i \in DOMAIN PreList :
        last.pre.data[setItemKey(PreHandle.id, PreList[i])]
            \notin {Nil, SetNilValue}}

\* C8: SRem that meets a listed member whose key holds a value other than
\* the sentinel fails with ErrSetNilValue at once: it reports no count and
\* leaves the members listed after it alone.
C8_SRemCorruptSentinel ==
    (last.op = "SRem" /\ last.f = 0 /\ PreHandle.exists /\ CorruptAt # {}) =>
        /\ last.err = "ErrSetNilValue"
        /\ last.ret = 0
        /\ \A i \in CorruptAt, j \in DOMAIN PreList :
              j > i => data[setItemKey(PreHandle.id, PreList[j])] =
                       last.pre.data[setItemKey(PreHandle.id, PreList[j])]

\* What GetSet of the destination gives SMove: it is SMove's second store
\* call.
PreDest ==
    GetSet(last.pre.meta, last.pre.data, last.pre.handle, last.dst,
           last.pre.now, Rel(last.f, 1))

\* C9: when the member is in the source and SMove cannot load the
\* destination (the store read fails, the stored record is malformed or is
\* not a set), SMove returns that error and leaves the source as it was.
C9_SMoveDestErrorSurfaces ==
    (/\ last.op = "SMove"
     /\ SIsmember(last.pre.data, PreHandle, last.m, last.f).ret = 1
     /\ PreDest.err # "nil") =>
        /\ last.err = PreDest.err
        /\ meta = last.pre.meta /\ data = last.pre.data
        /\ handle[last.k][1] = PreHandle

C11_DecodeInvalidLength ==
    (last.op = "GetSet" /\ last.f = 0 /\ last.pre.meta[last.k].kind = "raw")
        => last.err = "ErrInvalidLength"

\* C12: decoding the encoding of a metadata record yields its header
\* fields and its Len, for every header and every int64 Len; the encoding
\* is the header bytes followed by Len as 8 bytes, most significant first.
C12_EncodeDecodeRoundTrip ==
    last.op = "encodeSetMeta" =>
        LET m == last.arg
            b == last.out
            u == IF m.len < 0 THEN m.len + Word ELSE m.len
        IN /\ Len(b) = ObjectEncodingLength + 8
           /\ SubSeq(b, 1, ObjectEncodingLength) = EncodeObject(m)
           /\ \A i \in 1..8 :
                 b[ObjectEncodingLength + i]
                    = (u \div (ByteBase ^ (8 - i))) % ByteBase
           /\ last.val.err = "nil"
           /\ last.val.type = m.type /\ last.val.id = m.id
           /\ last.val.updatedAt = m.updatedAt
           /\ last.val.expireAt = m.expireAt
           /\ last.val.len = m.len

\* The record with the least int64 for Len went through the codec.
C12_Witness ==
    /\ last.op = "encodeSetMeta"
    /\ last.arg.len = 0 - (Word \div 2)
    /\ last.val.err = "nil" /\ last.val.len < 0
    /\ last.out[ObjectEncodingLength + 1] = 1

\* C13: GetSet, SCard, SIsmember and SMembers write nothing to the store;
\* GetSet of a key without a value returns a handle with exists false; and
\* SRem, SPop and SMove on a handle with exists false return 0 or nothing,
\* with no error, and leave every store key as it was.
C13_ReadsAndAbsentWriteNothing ==
    /\ last.op \in {"GetSet", "SCard", "SIsmember", "SMembers"} =>
          meta = last.pre.meta /\ data = last.pre.data
    /\ (last.op = "GetSet" /\ last.f = 0
          /\ last.pre.meta[last.k].kind = "none") =>
          /\ last.err = "nil"
          /\ handle[last.k][1].held /\ ~handle[last.k][1].exists
    /\ (last.op \in {"SRem", "SPop", "SMove"} /\ ~PreHandle.exists) =>
          /\ last.ret = 0 /\ last.out = <<>> /\ last.err = "nil"
          /\ meta = last.pre.meta /\ data = last.pre.data

\* An SPop with a positive count on a handle with exists false, while
\* another set has members.
C13_Witness ==
    /\ last.op = "SPop" /\ last.n > 0 /\ ~PreHandle.exists
    /\ \E p \in DOMAIN data : data[p] # Nil

\* The recorded call succeeded and persisted the metadata record of its
\* receiver.
Persisted ==
    /\ last.f = 0 /\ last.err = "nil"
    /\ \/ last.op = "SAdd"
       \/ last.op = "SRem" /\ PreHandle.exists
       \/ last.op = "SPop" /\ PreHandle.exists /\ PreHandle.len # 0
       \/ last.op = "SMove" /\ last.ret = 1

\* C14: the update timestamp stored by a successful SAdd, SRem, SPop or
\* SMove is not earlier than the time the operation started.
C14_UpdatedAtIsOperationTime ==
    Persisted =>
        /\ IsSet(meta, last.k)
        /\ meta[last.k].updatedAt >= last.pre.now

LeastMembers(n) ==
    /\ last.err = "nil"
    /\ Len(last.out) = Min(n, Cardinality(PreMembers))
    /\ Range(last.out) \subseteq PreMembers
    /\ \A i, j \in DOMAIN last.out : i < j => last.out[i] < last.out[j]
    /\ \A x \in Range(last.out) :
          \A y \in PreMembers \ Range(last.out) : x < y

\* C16: SMembers, on a handle loaded from the store: of a set whose stored
\* Len is its number of member keys it returns every member once, in
\* ascending order; of a set whose stored Len is smaller it returns the
\* first Len members in that order; on a set that does not exist it
\* returns nothing, with no error.
C16_SMembersOrdered ==
    (last.op = "SMembers" /\ last.f = 0 /\ PreSynced) =>
        IF ~PreHandle.exists THEN last.out = <<>> /\ last.err = "nil"
        ELSE LET n == last.pre.meta[last.k].len
             IN n <= Cardinality(PreMembers) =>
                  LeastMembers(IF n < 0 THEN 0 ELSE n)

\* The part of C16 that holds: the same for a stored Len that is not
\* negative.
SMembersOrderedFromZero ==
    (last.op = "SMembers" /\ last.f = 0 /\ PreSynced /\ PreHandle.exists
        /\ last.pre.meta[last.k].len >= 0) =>
        LeastMembers(last.pre.meta[last.k].len)

\* An SMembers of a set whose stored Len is positive and smaller than its
\* number of member keys.
SMembersShortOfKeys ==
    /\ last.op = "SMembers" /\ last.f = 0 /\ PreSynced /\ PreHandle.exists
    /\ last.pre.meta[last.k].len > 0
    /\ last.pre.meta[last.k].len < Cardinality(PreMembers)
    /\ Len(last.out) = last.pre.meta[last.k].len

\* The members of the set stored at key k; none when no set is stored.
MembersOf(mt, dt, k) == IF IsSet(mt, k) THEN StoredMembers(mt, dt, k) ELSE {}

\* The recorded call left alone the metadata of every key outside ks and
\* every member key whose data prefix is not of an id in ids.
OthersUnchanged(ks, ids) ==
    /\ \A k \in Keys \ ks : meta[k] = last.pre.meta[k]
    /\ \A p \in DOMAIN data : p[1] \notin ids => data[p] = last.pre.data[p]

\* C17: SAdd, SRem, SPop and SMembers write only member keys under the data
\* prefix of their own set and its metadata key, so the members and Len of
\* every other logical key stay as they were; SMove changes only its source
\* and its destination.
C17_OtherSetsUntouched ==
    /\ last.op \in {"SAdd", "SRem", "SPop", "SMembers"} =>
          /\ OthersUnchanged({last.k}, {PreHandle.id})
          /\ \A k \in Keys \ {last.k} :
                MembersOf(meta, data, k)
                    = MembersOf(last.pre.meta, last.pre.data, k)
    /\ last.op = "SMove" =>
          /\ OthersUnchanged({last.k, last.dst},
                             {PreHandle.id, meta[last.dst].id,
                              last.pre.meta[last.dst].id})
          /\ \A k \in Keys \ {last.k, last.dst} :
                MembersOf(meta, data, k)
                    = MembersOf(last.pre.meta, last.pre.data, k)

\* An SPop that took a member of one set while another set had members.
C17_Witness ==
    /\ Did("SPop") /\ last.out # <<>>
    /\ \E k \in Keys \ {last.k} :
          IsSet(meta, k) /\ StoredMembers(meta, data, k) # {}

\* An SMove that took a member out of a set while a set that is neither
\* its source nor its destination had members.
SMoveBesideAnotherSet ==
    /\ Did("SMove") /\ last.ret = 1
    /\ \E k \in Keys \ {last.k, last.dst} :
          IsSet(meta, k) /\ StoredMembers(meta, data, k) # {}

\* C18: with two handles of one logical key, both obtained by GetSet, and
\* SAdd, SRem and SPop issued through both in any order, the stored Len is
\* the number of member keys after every operation, and is never negative.
C18_TwoHandlesKeepLen ==
    (last.op \in {"SAdd", "SRem", "SPop"} /\ last.err = "nil") =>
        /\ LenInv(meta, data)
        /\ \A k \in Keys : IsSet(meta, k) => meta[k].len >= 0

\* The stored Len of some set is negative.
NegativeLen == \E k \in Keys : IsSet(meta, k) /\ meta[k].len < 0

\* C19: SPop with a negative count on a set that exists and has members
\* removes no member and leaves the stored Len as it was.
C19_SPopNegativeCount ==
    (Did("SPop") /\ last.n < 0 /\ PreHandle.exists /\ PreMembers # {}) =>
        /\ last.err = "nil" /\ last.out = <<>>
        /\ data = last.pre.data
        /\ meta[last.k].len = last.pre.meta[last.k].len

\* The position of the first occurrence of x in s.
FirstIndex(s, x) ==
    CHOOSE i \in DOMAIN s : s[i] = x /\ \A j \in 1..(i - 1) : s[j] # x

\* C20: RemoveRepByMap returns the subsequence of first occurrences of its
\* input: every distinct member once, in the order in which the members
\* first occur.
C20_RemoveRepByMapFirsts ==
    last.op = "RemoveRepByMap" =>
        /\ Range(last.out) = Range(last.arg)
        /\ Len(last.out) = Cardinality(Range(last.arg))
        /\ \A i, j \in DOMAIN last.out :
              i < j => FirstIndex(last.arg, last.out[i])
                          < FirstIndex(last.arg, last.out[j])

\* A list with a repeated member whose first occurrences are not in
\* ascending order.
C20_Witness ==
    /\ last.op = "RemoveRepByMap"
    /\ Len(last.out) < Len(last.arg)
    /\ Len(last.out) >= 2 /\ last.out[1] > last.out[2]

====
